---- MODULE Spec2Model ----
(***************************************************************************)
(* The "add" (capture) command of chezmoi: the Config hooks of             *)
(* internal/cmd/addcmd.go (defaultOnIgnoreFunc, defaultPreAddFunc,         *)
(* defaultReplaceFunc, runAddCmd), the map helpers Keys and SortedKeys of  *)
(* package chezmoimaps, and the capture loop that runAddCmd hands the      *)
(* hooks to.                                                               *)
(***************************************************************************)
EXTENDS Integers, Sequences, FiniteSets, TLC

\* ------------------------------------------------------------------ bounds

\* The largest number of findings the secret detector reports for one file.
MaxFindings == 2

\* The largest number of hook invocations of one run explored by HookSpec.
MaxCalls == 3

\* The largest number of observations handed to one capture run.
MaxObs == 3

\* The largest number of runs made one after the other on one Config.
MaxRuns == 2

\* ------------------------------------------------------------ error values

\* A Go error value: nil, the sentinel fs.SkipDir, a chezmoi.ExitCodeError
\* carrying its exit code, or an error handed up from a collaborator.
Nil == [kind |-> "nil", code |-> 0]
SkipDir == [kind |-> "fs.SkipDir", code |-> 0]
ExitCodeError(n) == [kind |-> "ExitCodeError", code |-> n]
ReadFileError == [kind |-> "ReadFileError", code |-> 0]
DetectorError == [kind |-> "DetectorError", code |-> 0]
PromptError == [kind |-> "PromptError", code |-> 0]
DestAbsPathInfosError == [kind |-> "DestAbsPathInfosError", code |-> 0]
PersistentStateFileError == [kind |-> "PersistentStateFileError", code |-> 0]
IOError == [kind |-> "IOError", code |-> 0]

\* How the capture algorithm reads a hook's result.
Outcome(err) ==
  IF err = Nil THEN "Proceed"
  ELSE IF err = SkipDir THEN "Skip"
  ELSE "Abort"

\* ------------------------------------------------------------ Config, inputs

severities == {"severityIgnore", "severityWarning", "severityError"}
choicesYesNoAllQuit == {"yes", "no", "all", "quit"}

\* fs.FileInfo, as far as the hooks read it: Mode().Type() is 0 for a
\* regular file.
FileTypes == {"regular", "dir", "symlink"}
FileInfos == [type : FileTypes]

\* What the collaborators answer during one defaultPreAddFunc invocation:
\* destSystem.ReadFile, getGitleaksDetector, DetectBytes and promptChoice.
\* An answer that is never asked for is left at its zero value.
PreAddEnvs ==
  {env \in [readErr : BOOLEAN, detectorErr : BOOLEAN, findings : 0..MaxFindings,
            promptErr : BOOLEAN, choice : choicesYesNoAllQuit] :
     /\ env.readErr => ~env.detectorErr /\ env.findings = 0
     /\ env.detectorErr => env.findings = 0
     /\ env.promptErr => env.choice = "yes"}

\* What promptChoice answers during one defaultReplaceFunc invocation.
ReplaceEnvs ==
  {env \in [promptErr : BOOLEAN, choice : choicesYesNoAllQuit] :
     env.promptErr => env.choice = "yes"}

\* chezmoi.SourceStateEntry: a *SourceStateFile with its Attr, or another
\* implementation of the interface (a directory here), which has no Attr
\* that defaultReplaceFunc can read.
AttrNames == {"Encrypted", "Private", "Template"}
NoAttr == [a \in AttrNames |-> FALSE]
SourceStateFiles == [type : {"SourceStateFile"}, Attr : [AttrNames -> BOOLEAN]]
SourceStateDirs == [type : {"SourceStateDir"}, Attr : {NoAttr}]
SourceStateEntries == SourceStateFiles \cup SourceStateDirs

\* ------------------------------------------------------------ strings, maps

\* A Go string is a sequence of bytes; Ord gives the byte of each character
\* the paths of the model are written with.
Ord == [c \in {"-", "/", "a", "c", "f", "h", "p", "s"} |->
          CASE c = "-" -> 45 [] c = "/" -> 47 [] c = "a" -> 97 [] c = "c" -> 99
            [] c = "f" -> 102 [] c = "h" -> 104 [] c = "p" -> 112 [] c = "s" -> 115]

\* s < t for strings: the first byte that differs decides, and a proper
\* prefix is smaller.
StrLess(s, t) ==
  \E k \in 1..Len(t) :
    /\ k <= Len(s) + 1
    /\ \A i \in 1..(k - 1) : s[i] = t[i]
    /\ \/ k = Len(s) + 1
       \/ k <= Len(s) /\ Ord[s[k]] < Ord[t[k]]

RECURSIVE Insert(_, _)
Insert(x, sorted) ==
  IF sorted = <<>> THEN <<x>>
  ELSE IF StrLess(Head(sorted), x) THEN <<Head(sorted)>> \o Insert(x, Tail(sorted))
  ELSE <<x>> \o sorted

\* slices.Sort(keys): the keys in increasing order.
RECURSIVE Sort(_)
Sort(keys) ==
  IF keys = <<>> THEN <<>> ELSE Insert(Head(keys), Sort(Tail(keys)))

\* Keys(m), with a key allowed to come up more than once.
KeysWithRepeats(m) == [1..Cardinality(DOMAIN m) -> DOMAIN m]

\* Keys(m): every key of m once, in an indeterminate order; the set of the
\* slices the call may return.
Keys(m) ==
  {r \in [1..Cardinality(DOMAIN m) -> DOMAIN m] :
     \A i, j \in DOMAIN r : i # j => r[i] # r[j]}

\* SortedKeys(m), without its slices.Sort.
SortedKeysUnsorted(m) == Keys(m)

\* SortedKeys(m): the set of the slices the call may return.
SortedKeys(m) == {Sort(keys) : keys \in Keys(m)}

\* ------------------------------------------------------------------- hooks

\* The prompt of defaultPreAddFunc: one promptChoice call and the switch on
\* its answer.  Gives the error returned, whether c.Add.prompt is cleared,
\* and the answer ("error" when promptChoice failed).
PreAddPromptAllKeepsAsking(env) ==
  IF env.promptErr THEN [err |-> PromptError, all |-> FALSE, choice |-> "error"]
  ELSE IF env.choice = "all" THEN [err |-> Nil, all |-> FALSE, choice |-> "all"]
  ELSE IF env.choice = "no" THEN [err |-> SkipDir, all |-> FALSE, choice |-> "no"]
  ELSE IF env.choice = "quit"
    THEN [err |-> ExitCodeError(0), all |-> FALSE, choice |-> "quit"]
  ELSE [err |-> Nil, all |-> FALSE, choice |-> "yes"]

PreAddPromptQuitProceeds(env) ==
  IF env.promptErr THEN [err |-> PromptError, all |-> FALSE, choice |-> "error"]
  ELSE IF env.choice = "all" THEN [err |-> Nil, all |-> TRUE, choice |-> "all"]
  ELSE IF env.choice = "no" THEN [err |-> SkipDir, all |-> FALSE, choice |-> "no"]
  ELSE IF env.choice = "quit" THEN [err |-> Nil, all |-> FALSE, choice |-> "quit"]
  ELSE [err |-> Nil, all |-> FALSE, choice |-> "yes"]

PreAddPromptNoProceeds(env) ==
  IF env.promptErr THEN [err |-> PromptError, all |-> FALSE, choice |-> "error"]
  ELSE IF env.choice = "all" THEN [err |-> Nil, all |-> TRUE, choice |-> "all"]
  ELSE IF env.choice = "no" THEN [err |-> Nil, all |-> FALSE, choice |-> "no"]
  ELSE IF env.choice = "quit"
    THEN [err |-> ExitCodeError(0), all |-> FALSE, choice |-> "quit"]
  ELSE [err |-> Nil, all |-> FALSE, choice |-> "yes"]

PreAddPrompt(env) ==
  IF env.promptErr THEN [err |-> PromptError, all |-> FALSE, choice |-> "error"]
  ELSE IF env.choice = "all" THEN [err |-> Nil, all |-> TRUE, choice |-> "all"]
  ELSE IF env.choice = "no" THEN [err |-> SkipDir, all |-> FALSE, choice |-> "no"]
  ELSE IF env.choice = "quit"
    THEN [err |-> ExitCodeError(0), all |-> FALSE, choice |-> "quit"]
  ELSE [err |-> Nil, all |-> FALSE, choice |-> "yes"]

\* The prompt of defaultReplaceFunc: the same, and "all" sets c.force.
ReplacePromptAllKeepsAsking(env) ==
  IF env.promptErr THEN [err |-> PromptError, all |-> FALSE, choice |-> "error"]
  ELSE IF env.choice = "all" THEN [err |-> Nil, all |-> FALSE, choice |-> "all"]
  ELSE IF env.choice = "no" THEN [err |-> SkipDir, all |-> FALSE, choice |-> "no"]
  ELSE IF env.choice = "quit"
    THEN [err |-> ExitCodeError(0), all |-> FALSE, choice |-> "quit"]
  ELSE [err |-> Nil, all |-> FALSE, choice |-> "yes"]

ReplacePromptNoProceeds(env) ==
  IF env.promptErr THEN [err |-> PromptError, all |-> FALSE, choice |-> "error"]
  ELSE IF env.choice = "all" THEN [err |-> Nil, all |-> TRUE, choice |-> "all"]
  ELSE IF env.choice = "no" THEN [err |-> Nil, all |-> FALSE, choice |-> "no"]
  ELSE IF env.choice = "quit"
    THEN [err |-> ExitCodeError(0), all |-> FALSE, choice |-> "quit"]
  ELSE [err |-> Nil, all |-> FALSE, choice |-> "yes"]

ReplacePrompt(env) ==
  IF env.promptErr THEN [err |-> PromptError, all |-> FALSE, choice |-> "error"]
  ELSE IF env.choice = "all" THEN [err |-> Nil, all |-> TRUE, choice |-> "all"]
  ELSE IF env.choice = "no" THEN [err |-> SkipDir, all |-> FALSE, choice |-> "no"]
  ELSE IF env.choice = "quit"
    THEN [err |-> ExitCodeError(0), all |-> FALSE, choice |-> "quit"]
  ELSE [err |-> Nil, all |-> FALSE, choice |-> "yes"]

\* The scan condition with Encrypt left out.
ScansContentOfEncrypted(secrets, encrypt, fileInfo) ==
  secrets # "severityIgnore" /\ fileInfo.type = "regular"

\* Whether defaultPreAddFunc scans the content of the candidate.
ScansContent(secrets, encrypt, fileInfo) ==
  secrets # "severityIgnore" /\ fileInfo.type = "regular" /\ ~encrypt

\* The secret scan with a single finding let through.
SecretScanMoreThanOne(frc, secrets, encrypt, fileInfo, env) ==
  IF ~ScansContent(secrets, encrypt, fileInfo)
    THEN [err |-> Nil, read |-> FALSE, detected |-> FALSE, reported |-> 0,
          found |-> 0]
  ELSE IF env.readErr
    THEN [err |-> ReadFileError, read |-> TRUE, detected |-> FALSE, reported |-> 0,
          found |-> 0]
  ELSE IF env.detectorErr
    THEN [err |-> DetectorError, read |-> TRUE, detected |-> FALSE, reported |-> 0,
          found |-> 0]
  ELSE IF ~frc /\ secrets = "severityError" /\ env.findings > 1
    THEN [err |-> ExitCodeError(1), read |-> TRUE, detected |-> TRUE,
          reported |-> env.findings, found |-> env.findings]
  ELSE [err |-> Nil, read |-> TRUE, detected |-> TRUE, reported |-> env.findings,
        found |-> env.findings]

\* The secret scan returning the exit code of success for a violation.
SecretScanExitZero(frc, secrets, encrypt, fileInfo, env) ==
  IF ~ScansContent(secrets, encrypt, fileInfo)
    THEN [err |-> Nil, read |-> FALSE, detected |-> FALSE, reported |-> 0,
          found |-> 0]
  ELSE IF env.readErr
    THEN [err |-> ReadFileError, read |-> TRUE, detected |-> FALSE, reported |-> 0,
          found |-> 0]
  ELSE IF env.detectorErr
    THEN [err |-> DetectorError, read |-> TRUE, detected |-> FALSE, reported |-> 0,
          found |-> 0]
  ELSE IF ~frc /\ secrets = "severityError" /\ env.findings > 0
    THEN [err |-> ExitCodeError(0), read |-> TRUE, detected |-> TRUE,
          reported |-> env.findings, found |-> env.findings]
  ELSE [err |-> Nil, read |-> TRUE, detected |-> TRUE, reported |-> env.findings,
        found |-> env.findings]

\* The secret scan aborting on findings under severity warning as well.
SecretScanWarnAborts(frc, secrets, encrypt, fileInfo, env) ==
  IF ~ScansContent(secrets, encrypt, fileInfo)
    THEN [err |-> Nil, read |-> FALSE, detected |-> FALSE, reported |-> 0,
          found |-> 0]
  ELSE IF env.readErr
    THEN [err |-> ReadFileError, read |-> TRUE, detected |-> FALSE, reported |-> 0,
          found |-> 0]
  ELSE IF env.detectorErr
    THEN [err |-> DetectorError, read |-> TRUE, detected |-> FALSE, reported |-> 0,
          found |-> 0]
  ELSE IF ~frc /\ env.findings > 0
    THEN [err |-> ExitCodeError(1), read |-> TRUE, detected |-> TRUE,
          reported |-> env.findings, found |-> env.findings]
  ELSE [err |-> Nil, read |-> TRUE, detected |-> TRUE, reported |-> env.findings,
        found |-> env.findings]

\* The secret scan of defaultPreAddFunc: the error it returns (Nil to go on
\* to the prompt), what it read, how many findings the detector returned
\* and how many of them it reported.
SecretScan(frc, secrets, encrypt, fileInfo, env) ==
  IF ~ScansContent(secrets, encrypt, fileInfo)
    THEN [err |-> Nil, read |-> FALSE, detected |-> FALSE, reported |-> 0,
          found |-> 0]
  ELSE IF env.readErr
    THEN [err |-> ReadFileError, read |-> TRUE, detected |-> FALSE, reported |-> 0,
          found |-> 0]
  ELSE IF env.detectorErr
    THEN [err |-> DetectorError, read |-> TRUE, detected |-> FALSE, reported |-> 0,
          found |-> 0]
  ELSE IF ~frc /\ secrets = "severityError" /\ env.findings > 0
    THEN [err |-> ExitCodeError(1), read |-> TRUE, detected |-> TRUE,
          reported |-> env.findings, found |-> env.findings]
  ELSE [err |-> Nil, read |-> TRUE, detected |-> TRUE, reported |-> env.findings,
        found |-> env.findings]

\* defaultPreAddFunc asking the user first and scanning afterwards.
defaultPreAddFuncAsksFirst(frc, prm, secrets, encrypt, fileInfo, env) ==
  LET scan == SecretScan(frc, secrets, encrypt, fileInfo, env)
      ask == PreAddPrompt(env)
      unread == [hook |-> "defaultPreAddFunc", read |-> FALSE, detected |-> FALSE,
                 reported |-> 0, found |-> 0, force |-> frc,
                 scanned |-> ScansContent(secrets, encrypt, fileInfo)]
      base == [hook |-> "defaultPreAddFunc", read |-> scan.read,
               detected |-> scan.detected, reported |-> scan.reported,
               found |-> scan.found, force |-> frc,
               scanned |-> ScansContent(secrets, encrypt, fileInfo)]
  IN  IF prm /\ ask.err # Nil
        THEN unread @@ [err |-> ask.err, prompt |-> prm, prompted |-> TRUE,
                        choice |-> ask.choice]
      ELSE base @@ [err |-> scan.err, prompt |-> IF prm /\ ask.all THEN FALSE ELSE prm,
                    prompted |-> prm, choice |-> IF prm THEN ask.choice ELSE "none"]

\* defaultPreAddFunc setting c.force as well when the user answers all.
defaultPreAddFuncAllSetsForce(frc, prm, secrets, encrypt, fileInfo, env) ==
  LET scan == SecretScan(frc, secrets, encrypt, fileInfo, env)
      ask == PreAddPrompt(env)
      base == [hook |-> "defaultPreAddFunc", read |-> scan.read,
               detected |-> scan.detected, reported |-> scan.reported,
               found |-> scan.found,
               scanned |-> ScansContent(secrets, encrypt, fileInfo)]
  IN  IF scan.err # Nil
        THEN base @@ [err |-> scan.err, prompt |-> prm, force |-> frc,
                      prompted |-> FALSE, choice |-> "none"]
      ELSE IF ~prm
        THEN base @@ [err |-> Nil, prompt |-> prm, force |-> frc,
                      prompted |-> FALSE, choice |-> "none"]
      ELSE base @@ [err |-> ask.err, prompt |-> IF ask.all THEN FALSE ELSE prm,
                    force |-> IF ask.all THEN TRUE ELSE frc,
                    prompted |-> TRUE, choice |-> ask.choice]

\* c.defaultPreAddFunc(targetRelPath, fileInfo): the returned error, the new
\* values of c.Add.prompt and c.force, and a record of what the invocation
\* did.
defaultPreAddFunc(frc, prm, secrets, encrypt, fileInfo, env) ==
  LET scan == SecretScan(frc, secrets, encrypt, fileInfo, env)
      ask == PreAddPrompt(env)
      base == [hook |-> "defaultPreAddFunc", read |-> scan.read,
               detected |-> scan.detected, reported |-> scan.reported,
               found |-> scan.found, force |-> frc,
               scanned |-> ScansContent(secrets, encrypt, fileInfo)]
  IN  IF scan.err # Nil
        THEN base @@ [err |-> scan.err, prompt |-> prm, prompted |-> FALSE,
                      choice |-> "none"]
      ELSE IF ~prm
        THEN base @@ [err |-> Nil, prompt |-> prm, prompted |-> FALSE,
                      choice |-> "none"]
      ELSE base @@ [err |-> ask.err, prompt |-> IF ask.all THEN FALSE ELSE prm,
                    prompted |-> TRUE, choice |-> ask.choice]

\* The removed attributes with the private attribute left out.
removedAttributesNoPrivate(newEntry, oldEntry) ==
  {a \in AttrNames \ {"Private"} : ~newEntry.Attr[a] /\ oldEntry.Attr[a]}

\* The attributes that adding newEntry would remove from oldEntry.
removedAttributes(newEntry, oldEntry) ==
  {a \in AttrNames : ~newEntry.Attr[a] /\ oldEntry.Attr[a]}

\* defaultReplaceFunc without its check of c.force.
defaultReplaceFuncIgnoresForce(frc, newEntry, oldEntry, env) ==
  LET ask == ReplacePrompt(env)
      quiet0 == [hook |-> "defaultReplaceFunc", err |-> Nil, force |-> frc,
                 prompted |-> FALSE, choice |-> "none"]
  IN  IF newEntry.type # "SourceStateFile" \/ oldEntry.type # "SourceStateFile"
        THEN quiet0
      ELSE IF removedAttributes(newEntry, oldEntry) = {} THEN quiet0
      ELSE [hook |-> "defaultReplaceFunc", err |-> ask.err,
            force |-> IF ask.all THEN TRUE ELSE frc,
            prompted |-> TRUE, choice |-> ask.choice]

\* c.defaultReplaceFunc(targetRelPath, newSourceStateEntry,
\* oldSourceStateEntry): the returned error, the new value of c.force, and a
\* record of what the invocation did.
defaultReplaceFunc(frc, newEntry, oldEntry, env) ==
  LET ask == ReplacePrompt(env)
      quiet0 == [hook |-> "defaultReplaceFunc", err |-> Nil, force |-> frc,
                 prompted |-> FALSE, choice |-> "none"]
  IN  IF frc THEN quiet0
      ELSE IF newEntry.type # "SourceStateFile" \/ oldEntry.type # "SourceStateFile"
        THEN quiet0
      ELSE IF removedAttributes(newEntry, oldEntry) = {} THEN quiet0
      ELSE [hook |-> "defaultReplaceFunc", err |-> ask.err,
            force |-> IF ask.all THEN TRUE ELSE frc,
            prompted |-> TRUE, choice |-> ask.choice]

\* ------------------------------------------------------------------- state

VARIABLES
  force,             \* c.force
  prompt,            \* c.Add.prompt
  Secrets,           \* c.Add.Secrets
  Encrypt,           \* c.Add.Encrypt
  quiet,             \* c.Add.quiet
  pc,                \* "idle", "adding" (a run is in progress) or "returned"
  retErr,            \* the error the run returned
  ncalls,            \* hook invocations of the run so far
  preAddCall,        \* the latest defaultPreAddFunc invocation
  replaceCall,       \* the latest defaultReplaceFunc invocation
  addAllAt,          \* the invocation that answered "all" to an add prompt
  replaceAllAt,      \* the invocation that answered "all" to a replace prompt
  lastAddChoice,     \* the answer to the run's latest add prompt
  filter,            \* c.Add.filter
  sourceState,       \* the source state: target path -> entry
  destAbsPathInfos,  \* the observations of the run: target path -> info
  order,             \* the order in which the run takes the observations
  idx,               \* the position in order of the next observation
  events,            \* what the run did with each observation, in order
  abortIdx,          \* the position at which a hook met a cause to abort
  warnings,          \* the paths of the "warning: ignoring" lines written
  ignored,           \* the target paths handed to OnIgnoreFunc, in order
  mapM,              \* the map handed to Keys or SortedKeys
  mapBefore,         \* that map as it was before the call
  mapCall,           \* the function called last: "Keys", "SortedKeys" or "none"
  mapKeys,           \* the slice that call returned
  run,               \* the number of the run, counted from 1, on this Config
  forceAtStart,      \* c.force as the configuration gave it
  promptAtStart      \* c.Add.prompt as the configuration gave it

configVars == <<force, prompt, Secrets, Encrypt, quiet, filter>>
hookVars == <<ncalls, preAddCall, replaceCall, addAllAt, replaceAllAt, lastAddChoice>>
runVars ==
  <<sourceState, destAbsPathInfos, order, idx, events, abortIdx, warnings, ignored>>
mapVars == <<mapM, mapBefore, mapCall, mapKeys>>
processVars == <<run, forceAtStart, promptAtStart>>
vars == <<configVars, pc, retErr, hookVars, runVars, mapVars, processVars>>

NoPreAddCall ==
  [hook |-> "none", n |-> 0, forceBefore |-> FALSE, promptBefore |-> FALSE,
   fileInfo |-> [type |-> "regular"], after |-> "none", scanned |-> FALSE,
   read |-> FALSE, detected |-> FALSE, reported |-> 0, found |-> 0,
   prompted |-> FALSE, choice |-> "none", err |-> Nil]

NoReplaceCall ==
  [hook |-> "none", n |-> 0, forceBefore |-> FALSE, promptBefore |-> FALSE,
   newEntry |-> [type |-> "SourceStateDir", Attr |-> NoAttr],
   oldEntry |-> [type |-> "SourceStateDir", Attr |-> NoAttr], replaceAllBefore |-> FALSE,
   prompted |-> FALSE, choice |-> "none", err |-> Nil]

\* The record kept of a defaultPreAddFunc invocation, the n-th of the run:
\* its inputs, the flags it found, and what it did (r).
PreAddRecord(r, n, fileInfo) ==
  [hook |-> r.hook, n |-> n, forceBefore |-> force,
   promptBefore |-> prompt, fileInfo |-> fileInfo, after |-> lastAddChoice,
   scanned |-> r.scanned, read |-> r.read, detected |-> r.detected,
   reported |-> r.reported, found |-> r.found, prompted |-> r.prompted,
   choice |-> r.choice, err |-> r.err]

\* The record kept of a defaultReplaceFunc invocation, the n-th of the run,
\* which found c.force at frc and c.Add.prompt at prm.
ReplaceRecord(r, n, frc, prm, newEntry, oldEntry) ==
  [hook |-> r.hook, n |-> n, forceBefore |-> frc, promptBefore |-> prm,
   newEntry |-> newEntry, oldEntry |-> oldEntry,
   replaceAllBefore |-> replaceAllAt > 0,
   prompted |-> r.prompted, choice |-> r.choice, err |-> r.err]

ConfigInit ==
  /\ force \in BOOLEAN
  /\ prompt \in BOOLEAN
  /\ Secrets \in severities
  /\ Encrypt \in BOOLEAN
  /\ quiet \in BOOLEAN

\* chezmoi.EntryTypeFilter: an entry type is included iff Include is empty
\* or holds it, and Exclude does not hold it.
IncludeAll == [Include |-> {}, Exclude |-> {}]
ExcludeSymlinks == [Include |-> {}, Exclude |-> {"symlink"}]
IncludeEntryType(f, type) ==
  (f.Include = {} \/ type \in f.Include) /\ type \notin f.Exclude

\* The first run on a Config, whose flags are as the configuration gave
\* them.
ProcessVarsInit ==
  /\ run = 1
  /\ forceAtStart = force
  /\ promptAtStart = prompt

\* No map function is under study.
MapVarsInit ==
  /\ mapM = <<>>
  /\ mapBefore = <<>>
  /\ mapCall = "none"
  /\ mapKeys = <<>>

HookVarsInit ==
  /\ ncalls = 0
  /\ preAddCall = NoPreAddCall
  /\ replaceCall = NoReplaceCall
  /\ addAllAt = 0
  /\ replaceAllAt = 0
  /\ lastAddChoice = "none"

ZeroPreAddEnv ==
  [readErr |-> FALSE, detectorErr |-> FALSE, findings |-> 0,
   promptErr |-> FALSE, choice |-> "yes"]
ZeroReplaceEnv == [promptErr |-> FALSE, choice |-> "yes"]

\* The answers of the collaborators that a hook did not ask for are left
\* at their zero values.
PreAddAsksOnly(pre, preEnv) ==
  /\ ~pre.read => ~preEnv.readErr /\ ~preEnv.detectorErr /\ preEnv.findings = 0
  /\ ~pre.prompted => ~preEnv.promptErr /\ preEnv.choice = "yes"
ReplaceAsksOnly(rep, repEnv) ==
  ~rep.prompted => repEnv = ZeroReplaceEnv

\* ------------------------------------------------- the hooks, one by one

\* One run in which the capture algorithm invokes the hooks with any
\* arguments, until one of them aborts the run.
HookInit ==
  /\ ConfigInit
  /\ ~quiet
  /\ filter = IncludeAll
  /\ HookVarsInit
  /\ pc = "adding"
  /\ retErr = Nil
  /\ sourceState = <<>>
  /\ destAbsPathInfos = <<>>
  /\ order = <<>>
  /\ idx = 0
  /\ events = <<>>
  /\ abortIdx = 0
  /\ warnings = <<>>
  /\ ignored = <<>>
  /\ MapVarsInit
  /\ ProcessVarsInit

CallPreAdd ==
  /\ pc = "adding"
  /\ ncalls < MaxCalls
  /\ \E fileInfo \in FileInfos, env \in PreAddEnvs :
     \E r \in {defaultPreAddFunc(force, prompt, Secrets, Encrypt, fileInfo, env)} :
           /\ PreAddAsksOnly(r, env)
           /\ preAddCall' = PreAddRecord(r, ncalls + 1, fileInfo)
           /\ prompt' = r.prompt
           /\ force' = r.force
           /\ addAllAt' = IF r.choice = "all" THEN ncalls + 1 ELSE addAllAt
           /\ lastAddChoice' = IF r.prompted THEN r.choice ELSE lastAddChoice
           /\ pc' = IF Outcome(r.err) = "Abort" THEN "returned" ELSE pc
           /\ retErr' = IF Outcome(r.err) = "Abort" THEN r.err ELSE retErr
  /\ replaceCall' = NoReplaceCall
  /\ ncalls' = ncalls + 1
  /\ UNCHANGED <<Secrets, Encrypt, quiet, filter, replaceAllAt, runVars, mapVars,
               processVars>>

CallReplace ==
  /\ pc = "adding"
  /\ ncalls < MaxCalls
  /\ \E newEntry \in SourceStateEntries, oldEntry \in SourceStateEntries,
        env \in ReplaceEnvs :
     \E r \in {defaultReplaceFunc(force, newEntry, oldEntry, env)} :
           /\ ReplaceAsksOnly(r, env)
           /\ replaceCall' = ReplaceRecord(r, ncalls + 1, force, prompt,
                                            newEntry, oldEntry)
           /\ force' = r.force
           /\ replaceAllAt' = IF r.choice = "all" THEN ncalls + 1 ELSE replaceAllAt
           /\ pc' = IF Outcome(r.err) = "Abort" THEN "returned" ELSE pc
           /\ retErr' = IF Outcome(r.err) = "Abort" THEN r.err ELSE retErr
  /\ preAddCall' = NoPreAddCall
  /\ ncalls' = ncalls + 1
  /\ UNCHANGED <<prompt, Secrets, Encrypt, quiet, filter, addAllAt, lastAddChoice, runVars,
               mapVars, processVars>>

HookNext == CallPreAdd \/ CallReplace

HookSpec == HookInit /\ [][HookNext]_vars

\* c.runAddCmd is called again on the same Config once the run before it is
\* over: the records of the run start afresh, and c.force and c.Add.prompt
\* are what the run before left, runAddCmd assigning neither.
NextRun ==
  /\ pc \in {"adding", "returned"}
  /\ ncalls > 0
  /\ run < MaxRuns
  /\ run' = run + 1
  /\ pc' = "adding"
  /\ retErr' = Nil
  /\ ncalls' = 0
  /\ preAddCall' = NoPreAddCall
  /\ replaceCall' = NoReplaceCall
  /\ addAllAt' = 0
  /\ replaceAllAt' = 0
  /\ lastAddChoice' = "none"
  /\ UNCHANGED <<configVars, runVars, mapVars, forceAtStart, promptAtStart>>

TwoRunNext == CallPreAdd \/ CallReplace \/ NextRun

\* Runs made one after the other in one process on one Config.
TwoRunSpec == HookInit /\ [][TwoRunNext]_vars

\* ------------------------------------------------------- paths of the run

\* AbsPath.Join: the path of rel below dir.
Join(dir, rel) == dir \o <<"/">> \o rel

DestDirAbsPath == <<"/", "h">>
CacheDirAbsPath == <<"/", "h", "/", "c">>
WorkingTreeAbsPath == <<"/", "h", "/", "s">>
ConfigFileAbsPath == <<"/", "h", "/", "f">>
persistentStateFileAbsPath == <<"/", "h", "/", "p">>
sourceDirAbsPath == <<"/", "h", "/", "s">>

\* The AddOptions.ProtectedAbsPaths of runAddCmd, less the persistent-state
\* file.
ProtectedAbsPathsNoStateFile ==
  <<CacheDirAbsPath, WorkingTreeAbsPath, ConfigFileAbsPath, sourceDirAbsPath>>

\* The AddOptions.ProtectedAbsPaths that runAddCmd passes.
ProtectedAbsPaths ==
  <<CacheDirAbsPath, WorkingTreeAbsPath, ConfigFileAbsPath,
    persistentStateFileAbsPath, sourceDirAbsPath>>

\* abs is dir or lies below it.
IsOrIsBelow(abs, dir) ==
  \/ abs = dir
  \/ /\ Len(abs) > Len(dir) + 1
     /\ SubSeq(abs, 1, Len(dir) + 1) = dir \o <<"/">>

IsProtected(abs) ==
  \E i \in DOMAIN ProtectedAbsPaths : IsOrIsBelow(abs, ProtectedAbsPaths[i])

\* The destination directory the runs read: a directory a with a private
\* file a/a, a symlink a-, the persistent-state file p beside a file pa,
\* and a file s/a in the source directory.
DestFS ==
  (<<"a">> :> [type |-> "dir", private |-> FALSE])
  @@ (<<"a", "-">> :> [type |-> "symlink", private |-> FALSE])
  @@ (<<"a", "/", "a">> :> [type |-> "regular", private |-> TRUE])
  @@ (<<"p">> :> [type |-> "regular", private |-> TRUE])
  @@ (<<"p", "a">> :> [type |-> "regular", private |-> FALSE])
  @@ (<<"s", "/", "a">> :> [type |-> "regular", private |-> FALSE])

RelPaths == DOMAIN DestFS

\* The observation maps a run may be handed: up to MaxObs paths of DestFS.
ObservationMaps ==
  {[p \in ps |-> DestFS[p]] :
     ps \in {q \in SUBSET RelPaths : q # {} /\ Cardinality(q) <= MaxObs}}

NoEntry == [type |-> "none", Attr |-> NoAttr]
SourceStateSymlink == [type |-> "SourceStateSymlink", Attr |-> NoAttr]
SourceStateDir == [type |-> "SourceStateDir", Attr |-> NoAttr]

\* The source states a run may start from: empty, or one file entry at the
\* target path of the regular file pa of DestFS.
EmptySourceState == [p \in RelPaths |-> NoEntry]
InitialSourceStates ==
  {EmptySourceState}
  \cup {[EmptySourceState EXCEPT ![p] = e] :
          p \in {<<"p", "a">>}, e \in SourceStateFiles}

\* The entry the capture algorithm builds for an observation: the options
\* Template, AutoTemplate, Create, Exact and TemplateSymlinks are off.
NewEntry(info, encrypt) ==
  IF info.type = "dir" THEN SourceStateDir
  ELSE IF info.type = "symlink" THEN SourceStateSymlink
  ELSE [type |-> "SourceStateFile",
        Attr |-> [a \in AttrNames |->
                    CASE a = "Encrypted" -> encrypt
                      [] a = "Private" -> info.private
                      [] a = "Template" -> FALSE]]

\* c.defaultOnIgnoreFunc(targetRelPath), writing its warning whether or not
\* c.Add.quiet is set.
defaultOnIgnoreFuncLoud(q, written, targetRelPath) ==
  Append(written, targetRelPath)

\* c.defaultOnIgnoreFunc(targetRelPath): the warnings after the call.
defaultOnIgnoreFunc(q, written, targetRelPath) ==
  IF ~q THEN Append(written, targetRelPath) ELSE written

\* ------------------------------------------------------- the capture run

\* An invocation met a cause to abort the run: the user chose quit, the
\* prompt failed, the content could not be read or the detector not be had,
\* or findings under severity error with no force override.
PreAddAbortCause(r, frc, secrets) ==
  \/ r.choice \in {"quit", "error"}
  \/ r.read /\ ~r.detected
  \/ r.detected /\ r.reported > 0 /\ secrets = "severityError" /\ ~frc
ReplaceAbortCause(r) == r.choice \in {"quit", "error"}

\* What the capture algorithm does with the observation at target path p:
\* protected paths and filtered-out entry types are ignored; a regular
\* file goes through PreAddFunc (pre is what the hook answers) and has its
\* content read; an entry that would drop an attribute of the one already
\* there goes through ReplaceFunc (rep is what the hook answers); what is
\* left is written.
AddOutcome(p, ignores, pre, rep, ioErr) ==
  LET info == destAbsPathInfos[p]
      oldEntry == sourceState[p]
      newEntry == NewEntry(info, Encrypt)
      regular == info.type = "regular"
      replaces == oldEntry # NoEntry /\ removedAttributes(newEntry, oldEntry) # {}
      promptAfter == IF regular THEN pre.prompt ELSE prompt
      forceAfter == IF regular THEN pre.force ELSE force
      o == [kind |-> "ignored", err |-> Nil, callsPre |-> FALSE,
            callsRep |-> FALSE, readsContent |-> FALSE, pre |-> pre, rep |-> rep,
            prompt |-> prompt, force |-> force, oldEntry |-> oldEntry,
            newEntry |-> newEntry]
  IN  IF ignores THEN o
      ELSE IF regular /\ Outcome(pre.err) = "Skip"
        THEN [o EXCEPT !.kind = "skipped", !.callsPre = TRUE, !.prompt = pre.prompt,
                       !.force = pre.force]
      ELSE IF regular /\ Outcome(pre.err) = "Abort"
        THEN [o EXCEPT !.kind = "aborted", !.err = pre.err, !.callsPre = TRUE,
                       !.prompt = pre.prompt, !.force = pre.force]
      ELSE IF regular /\ ioErr
        THEN [o EXCEPT !.kind = "aborted", !.err = IOError, !.callsPre = TRUE,
                       !.readsContent = TRUE, !.prompt = pre.prompt,
                       !.force = pre.force]
      ELSE IF replaces /\ Outcome(rep.err) = "Skip"
        THEN [o EXCEPT !.kind = "skipped", !.callsPre = regular,
                       !.readsContent = regular, !.callsRep = TRUE,
                       !.prompt = promptAfter, !.force = rep.force]
      ELSE IF replaces /\ Outcome(rep.err) = "Abort"
        THEN [o EXCEPT !.kind = "aborted", !.err = rep.err, !.callsPre = regular,
                       !.readsContent = regular, !.callsRep = TRUE,
                       !.prompt = promptAfter, !.force = rep.force]
      ELSE [o EXCEPT !.kind = "written", !.callsPre = regular,
                     !.readsContent = regular, !.callsRep = replaces,
                     !.prompt = promptAfter,
                     !.force = IF replaces THEN rep.force ELSE forceAfter]

\* The capture algorithm ignores the observation at target path p: the
\* path is protected, or the filter leaves its entry type out.
Ignores(p) ==
  \/ IsProtected(Join(DestDirAbsPath, p))
  \/ ~IncludeEntryType(filter, destAbsPathInfos[p].type)

\* The answers the step at target path p may need: those of PreAddFunc for
\* a regular file that is not ignored; those of the content read once
\* PreAddFunc (which answered pre) lets the file through; those of
\* ReplaceFunc once the new entry is built and drops an attribute.
PreAddEnvsOf(p, ignores) ==
  IF ~ignores /\ destAbsPathInfos[p].type = "regular"
    THEN PreAddEnvs ELSE {ZeroPreAddEnv}
IOErrsOf(p, ignores, pre) ==
  IF ~ignores /\ destAbsPathInfos[p].type = "regular" /\ pre.err = Nil
    THEN BOOLEAN ELSE {FALSE}
ReplaceEnvsOf(p, ignores, pre, ioErr) ==
  IF /\ ~ignores
     /\ destAbsPathInfos[p].type = "regular" => pre.err = Nil /\ ~ioErr
     /\ sourceState[p] # NoEntry
     /\ removedAttributes(NewEntry(destAbsPathInfos[p], Encrypt), sourceState[p]) # {}
    THEN ReplaceEnvs ELSE {ZeroReplaceEnv}

Init ==
  /\ ConfigInit
  /\ filter \in {IncludeAll, ExcludeSymlinks}
  /\ HookVarsInit
  /\ pc = "idle"
  /\ retErr = Nil
  /\ sourceState \in InitialSourceStates
  /\ destAbsPathInfos = <<>>
  /\ order = <<>>
  /\ idx = 0
  /\ events = <<>>
  /\ abortIdx = 0
  /\ warnings = <<>>
  /\ ignored = <<>>
  /\ MapVarsInit
  /\ ProcessVarsInit

\* c.runAddCmd(cmd, args, sourceState), up to the first observation of
\* sourceState.Add: the observations are collected, the persistent-state
\* file is named, and the capture run starts on the sorted target paths.
runAddCmd ==
  /\ pc = "idle"
  /\ \/ /\ \E err \in {DestAbsPathInfosError, PersistentStateFileError} :
             retErr' = err
        /\ pc' = "returned"
        /\ UNCHANGED <<destAbsPathInfos, order, idx>>
     \/ /\ destAbsPathInfos' \in ObservationMaps
        /\ order' \in SortedKeys(destAbsPathInfos')
        /\ idx' = 1
        /\ pc' = "adding"
        /\ UNCHANGED retErr
  /\ UNCHANGED <<configVars, hookVars, sourceState, events, abortIdx, warnings,
               ignored, mapVars, processVars>>

\* One observation of sourceState.Add, with the hooks it invokes.
AddEntry ==
  /\ pc = "adding"
  /\ idx \in 1..Len(order)
  /\ \E ignores \in {Ignores(order[idx])} :
     \E preEnv \in PreAddEnvsOf(order[idx], ignores) :
     \E pre \in {defaultPreAddFunc(force, prompt, Secrets, Encrypt,
                                  [type |-> destAbsPathInfos[order[idx]].type],
                                  preEnv)} :
     /\ PreAddAsksOnly(pre, preEnv)
     /\ \E ioErr \in IOErrsOf(order[idx], ignores, pre) :
        \E repEnv \in ReplaceEnvsOf(order[idx], ignores, pre, ioErr) :
        \E rep \in {defaultReplaceFunc(pre.force,
                                      NewEntry(destAbsPathInfos[order[idx]], Encrypt),
                                      sourceState[order[idx]], repEnv)} :
        /\ ReplaceAsksOnly(rep, repEnv)
        /\ \E o \in {AddOutcome(order[idx], ignores, pre, rep, ioErr)} :
             LET p == order[idx]
                 nPre == IF o.callsPre THEN 1 ELSE 0
                 nRep == IF o.callsRep THEN 1 ELSE 0
                 cause == \/ o.callsPre /\ PreAddAbortCause(o.pre, force, Secrets)
                          \/ o.callsRep /\ ReplaceAbortCause(o.rep)
             IN  /\ preAddCall' = IF o.callsPre
                                    THEN PreAddRecord(o.pre, ncalls + 1,
                                                      [type |-> destAbsPathInfos[p].type])
                                    ELSE NoPreAddCall
                 /\ replaceCall' = IF o.callsRep
                                     THEN ReplaceRecord(o.rep, ncalls + nPre + 1,
                                                        IF o.callsPre THEN o.pre.force
                                                        ELSE force,
                                                        o.prompt, o.newEntry,
                                                        o.oldEntry)
                                     ELSE NoReplaceCall
                 /\ ncalls' = ncalls + nPre + nRep
                 /\ prompt' = o.prompt
                 /\ force' = o.force
                 /\ addAllAt' = IF o.callsPre /\ o.pre.choice = "all"
                                  THEN ncalls + 1 ELSE addAllAt
                 /\ lastAddChoice' = IF o.callsPre /\ o.pre.prompted
                                       THEN o.pre.choice ELSE lastAddChoice
                 /\ replaceAllAt' = IF o.callsRep /\ o.rep.choice = "all"
                                      THEN ncalls + nPre + 1 ELSE replaceAllAt
                 /\ sourceState' = IF o.kind = "written"
                                     THEN [sourceState EXCEPT ![p] = o.newEntry]
                                     ELSE sourceState
                 /\ warnings' = IF o.kind = "ignored"
                                  THEN defaultOnIgnoreFunc(quiet, warnings, p)
                                  ELSE warnings
                 /\ ignored' = IF o.kind = "ignored" THEN Append(ignored, p)
                                 ELSE ignored
                 /\ events' = Append(events,
                                     [path |-> p, idx |-> idx, kind |-> o.kind,
                                      entry |-> IF o.kind = "written" THEN o.newEntry
                                                ELSE NoEntry,
                                      before |-> o.oldEntry,
                                      pre |-> o.callsPre, rep |-> o.callsRep])
                 /\ abortIdx' = IF abortIdx = 0 /\ cause THEN idx ELSE abortIdx
                 /\ pc' = IF o.kind = "aborted" \/ idx = Len(order)
                            THEN "returned" ELSE "adding"
                 /\ retErr' = o.err
  /\ idx' = idx + 1
  /\ UNCHANGED <<Secrets, Encrypt, quiet, filter, destAbsPathInfos, order, mapVars,
               processVars>>

Next == runAddCmd \/ AddEntry

Spec == Init /\ [][Next]_vars

\* ------------------------------------------------------ the map functions

\* The maps handed to Keys and SortedKeys: up to MaxObs paths of DestFS,
\* none included.
Maps ==
  {[p \in ps |-> DestFS[p]] :
     ps \in {q \in SUBSET RelPaths : Cardinality(q) <= MaxObs}}

MapInit ==
  /\ force = FALSE
  /\ prompt = FALSE
  /\ Secrets = "severityIgnore"
  /\ Encrypt = FALSE
  /\ quiet = FALSE
  /\ filter = IncludeAll
  /\ HookVarsInit
  /\ pc = "idle"
  /\ retErr = Nil
  /\ sourceState = <<>>
  /\ destAbsPathInfos = <<>>
  /\ order = <<>>
  /\ idx = 0
  /\ events = <<>>
  /\ abortIdx = 0
  /\ warnings = <<>>
  /\ ignored = <<>>
  /\ mapM \in Maps
  /\ mapBefore = mapM
  /\ mapCall = "none"
  /\ mapKeys = <<>>
  /\ ProcessVarsInit

\* Keys(m): the map is ranged over and its keys appended to a new slice.
CallKeys ==
  /\ mapKeys' \in Keys(mapM)
  /\ mapCall' = "Keys"
  /\ mapBefore' = mapM
  /\ UNCHANGED <<mapM, configVars, pc, retErr, hookVars, runVars, processVars>>

\* SortedKeys(m): Keys(m), sorted in place.
CallSortedKeys ==
  /\ mapKeys' \in SortedKeys(mapM)
  /\ mapCall' = "SortedKeys"
  /\ mapBefore' = mapM
  /\ UNCHANGED <<mapM, configVars, pc, retErr, hookVars, runVars, processVars>>

MapNext == CallKeys \/ CallSortedKeys

MapSpec == MapInit /\ [][MapNext]_vars

\* -------------------------------------------------------------- properties

PreAddCalled == preAddCall.hook = "defaultPreAddFunc"
ReplaceCalled == replaceCall.hook = "defaultReplaceFunc"

\* The latest defaultPreAddFunc invocation scanned a file and the scanner
\* returned findings that the policy forbids.
SecretViolation ==
  /\ PreAddCalled
  /\ preAddCall.fileInfo.type = "regular"
  /\ Secrets = "severityError"
  /\ ~Encrypt
  /\ ~preAddCall.forceBefore
  /\ preAddCall.detected
  /\ preAddCall.reported >= 1

\* The secret check of the latest defaultPreAddFunc invocation passed: the
\* content was not scanned, or it was and no violation came of it.
SecretCheckPassed ==
  /\ PreAddCalled
  /\ \/ ~(Secrets # "severityIgnore" /\ preAddCall.fileInfo.type = "regular" /\ ~Encrypt)
     \/ preAddCall.detected /\ ~SecretViolation

\* The step the run took last.
LastEvent == events[Len(events)]

\* C1: a regular file scanned with Encrypt off whose scan returns at least
\* one finding, under severity error and with no force override, makes
\* defaultPreAddFunc return a non-zero exit-code error (Abort), and the
\* run writes no source entry for that file: it returns that error with the
\* source state at the path as it was.
C1_SecretFindingAborts ==
  SecretViolation =>
    /\ preAddCall.err.kind = "ExitCodeError"
    /\ preAddCall.err.code # 0
    /\ Outcome(preAddCall.err) = "Abort"
    /\ ~preAddCall.prompted
    /\ pc = "returned"
    /\ retErr = preAddCall.err
    /\ LastEvent.kind = "aborted"
    /\ sourceState[LastEvent.path] = LastEvent.before
    /\ \A i \in DOMAIN events :
         events[i].path = LastEvent.path => events[i].kind # "written"

C1_Witness ==
  /\ SecretViolation
  /\ Len(events) >= 2
  /\ preAddCall.reported = 1

\* C2: once the secret check has passed, defaultPreAddFunc with prompting
\* enabled asks and maps yes to Proceed, no to Skip, all to Proceed and quit
\* to Abort with exit code 0; with prompting disabled it gives Proceed
\* without asking.
C2_AddPromptChoices ==
  SecretCheckPassed =>
    IF preAddCall.promptBefore
      THEN /\ preAddCall.prompted
           /\ preAddCall.choice = "yes" =>
                preAddCall.err = Nil /\ Outcome(preAddCall.err) = "Proceed"
           /\ preAddCall.choice = "no" =>
                preAddCall.err = SkipDir /\ Outcome(preAddCall.err) = "Skip"
           /\ preAddCall.choice = "all" =>
                preAddCall.err = Nil /\ Outcome(preAddCall.err) = "Proceed"
           /\ preAddCall.choice = "quit" =>
                preAddCall.err = ExitCodeError(0) /\ Outcome(preAddCall.err) = "Abort"
      ELSE /\ ~preAddCall.prompted
           /\ preAddCall.err = Nil

C2_Witness ==
  /\ SecretCheckPassed
  /\ preAddCall.promptBefore
  /\ preAddCall.detected
  /\ preAddCall.choice = "no"

\* C3: after the user has answered all to an add prompt, no later
\* defaultPreAddFunc invocation of the run asks; an invocation that follows
\* the answer yes or no and passes the secret check still asks.
C3_AllStopsAddPrompts ==
  /\ PreAddCalled /\ addAllAt > 0 /\ preAddCall.n > addAllAt =>
       ~preAddCall.prompted
  /\ SecretCheckPassed /\ preAddCall.after \in {"yes", "no"} =>
       preAddCall.prompted
  /\ PreAddCalled /\ preAddCall.choice \in {"yes", "no"} => prompt

C3_Witness ==
  /\ SecretCheckPassed
  /\ addAllAt > 0
  /\ preAddCall.n > addAllAt + 1

\* Adding newEntry drops an attribute among Encrypted, Private and Template
\* that is set on oldEntry.
DropsAttribute(newEntry, oldEntry) ==
  \E a \in {"Encrypted", "Private", "Template"} :
    oldEntry.Attr[a] /\ ~newEntry.Attr[a]

BothFiles(newEntry, oldEntry) ==
  newEntry.type = "SourceStateFile" /\ oldEntry.type = "SourceStateFile"

C5_AllStopsReplacePrompts ==
  ReplaceCalled =>
    /\ replaceCall.replaceAllBefore =>
         ~replaceCall.prompted /\ replaceCall.err = Nil
    /\ replaceCall.prompted =>
         /\ replaceCall.choice = "yes" => replaceCall.err = Nil
         /\ replaceCall.choice = "no" => replaceCall.err = SkipDir
         /\ replaceCall.choice = "quit" => replaceCall.err = ExitCodeError(0)
         /\ replaceCall.choice = "all" => replaceCall.err = Nil

C5_Witness ==
  /\ ReplaceCalled
  /\ replaceCall.replaceAllBefore
  /\ BothFiles(replaceCall.newEntry, replaceCall.oldEntry)
  /\ DropsAttribute(replaceCall.newEntry, replaceCall.oldEntry)

\* A true error: one that aborts the run and is not the exit code 0.
TrueError(err) == Outcome(err) = "Abort" /\ err # ExitCodeError(0)

\* C6: either hook answers quit with the exit code 0, and with nothing
\* else: the secret-policy abort carries exit code 1, and a content-read,
\* detector or prompt error is a true error, never the exit code 0.
C6_QuitIsNotAnError ==
  /\ PreAddCalled =>
       /\ preAddCall.choice = "quit" <=> preAddCall.err = ExitCodeError(0)
       /\ SecretViolation => preAddCall.err = ExitCodeError(1)
       /\ preAddCall.read /\ ~preAddCall.detected => TrueError(preAddCall.err)
       /\ preAddCall.choice = "error" => TrueError(preAddCall.err)
  /\ ReplaceCalled =>
       /\ replaceCall.choice = "quit" <=> replaceCall.err = ExitCodeError(0)
       /\ replaceCall.choice = "error" => TrueError(replaceCall.err)

C6_Witness ==
  /\ ReplaceCalled
  /\ replaceCall.choice = "quit"
  /\ pc = "returned"
  /\ retErr = ExitCodeError(0)

\* The steps of the run that wrote a source entry.
Written == {i \in DOMAIN events : events[i].kind = "written"}

\* C7: once a hook has met a cause to abort at observation i (a secret-policy
\* violation, quit, a prompt error, a read or detector error), the run has
\* returned without writing an entry for observation i, no observation after
\* i is taken up (no hook invoked, no entry written), and every entry written
\* before i is still in the source state.
C7_AbortStopsTheBatch ==
  abortIdx > 0 =>
    /\ pc = "returned"
    /\ Outcome(retErr) = "Abort"
    /\ \A i \in DOMAIN events :
         /\ events[i].idx <= abortIdx
         /\ events[i].idx = abortIdx => events[i].kind = "aborted"
         /\ events[i].kind = "written" =>
              /\ events[i].idx < abortIdx
              /\ sourceState[events[i].path] = events[i].entry
    /\ preAddCall.n <= ncalls /\ replaceCall.n <= ncalls
    /\ idx = abortIdx + 1

C7_Witness ==
  /\ abortIdx = 2
  /\ Len(order) = 3
  /\ events[1].kind = "written"
  /\ preAddCall.choice = "quit"

\* C8: when the user answers no to the add prompt or to the replace prompt,
\* the run reports no error for the observation, the source state at its
\* target path is as it was before (an entry there is untouched, none is
\* created), and the run goes on to the next observation.
C8_SkipLeavesEntryAlone ==
  (PreAddCalled /\ preAddCall.choice = "no") \/ (ReplaceCalled /\ replaceCall.choice = "no") =>
    /\ LastEvent.kind = "skipped"
    /\ retErr = Nil
    /\ sourceState[LastEvent.path] = LastEvent.before
    /\ abortIdx = 0
    /\ idx = LastEvent.idx + 1
    /\ IF LastEvent.idx < Len(order) THEN pc = "adding" ELSE pc = "returned"

C8_Witness ==
  /\ ReplaceCalled
  /\ replaceCall.choice = "no"
  /\ LastEvent.before # NoEntry
  /\ pc = "adding"

\* The five paths runAddCmd protects.
FiveProtectedPaths ==
  {CacheDirAbsPath, WorkingTreeAbsPath, ConfigFileAbsPath,
   persistentStateFileAbsPath, sourceDirAbsPath}

\* Target path p is one of the protected paths or lies below one.
ProtectedTarget(p) ==
  \E q \in FiveProtectedPaths :
    \/ Join(DestDirAbsPath, p) = q
    \/ /\ Len(Join(DestDirAbsPath, p)) > Len(q)
       /\ SubSeq(Join(DestDirAbsPath, p), 1, Len(q) + 1) = q \o <<"/">>

\* C9: no observation at a protected path (the cache directory, the working
\* tree, the config file, the persistent-state file, the source directory,
\* or a descendant of one) is written into the source state; it is ignored
\* without an error, and a run that ends without an error has written
\* every other observation of the batch that the filter includes and the
\* user did not skip in a hook.
C9_ProtectedPathsNeverWritten ==
  /\ \A p \in RelPaths : ProtectedTarget(p) => sourceState[p] = NoEntry
  /\ \A i \in DOMAIN events :
       ProtectedTarget(events[i].path) =>
         /\ events[i].kind = "ignored"
         /\ ~events[i].pre /\ ~events[i].rep
         /\ i = Len(events) => retErr = Nil
  /\ pc = "returned" /\ retErr = Nil /\ events # <<>> =>
       \A p \in DOMAIN destAbsPathInfos :
         ~ProtectedTarget(p) /\ IncludeEntryType(filter, destAbsPathInfos[p].type) =>
           \E i \in DOMAIN events :
             /\ events[i].path = p
             /\ events[i].kind \in {"written", "skipped"}
             /\ events[i].kind = "skipped" => events[i].pre \/ events[i].rep
             /\ events[i].kind = "written" => sourceState[p] = events[i].entry

C9_Witness ==
  /\ pc = "returned"
  /\ retErr = Nil
  /\ Len(events) = 3
  /\ events[1].path = <<"p">> /\ events[1].kind = "ignored"
  /\ events[2].path = <<"p", "a">> /\ events[2].kind = "written"
  /\ events[3].path = <<"s", "/", "a">> /\ events[3].kind = "ignored"

\* C10: a capture run takes up target paths in strictly increasing lexical
\* order, and writes the entry of a directory before the entry of anything
\* below it.
C10_LexicalOrder ==
  /\ \A i, j \in DOMAIN events :
       i < j => StrLess(events[i].path, events[j].path)
  /\ \A i, j \in Written :
       /\ events[i].path # events[j].path
       /\ IsOrIsBelow(events[j].path, events[i].path)
       => i < j

C10_Witness ==
  /\ Len(events) = 3
  /\ events[1].path = <<"a">> /\ events[1].kind = "written"
  /\ events[2].path = <<"a", "-">> /\ events[2].kind = "written"
  /\ events[3].path = <<"a", "/", "a">> /\ events[3].kind = "written"

\* The slice holds every key of the map once and nothing else.
EachKeyOnce(slice, map) ==
  /\ Len(slice) = Cardinality(DOMAIN map)
  /\ \A i \in DOMAIN slice : slice[i] \in DOMAIN map
  /\ \A k \in DOMAIN map : Cardinality({i \in DOMAIN slice : slice[i] = k}) = 1

\* C11: SortedKeys(m) returns every key of m once and nothing else, in
\* strictly increasing order; Keys(m) returns len(m) keys, every key of m
\* once; and the map is after either call what it was before.
C11_KeysEachOnceSortedInOrder ==
  /\ mapCall = "SortedKeys" =>
       /\ EachKeyOnce(mapKeys, mapBefore)
       /\ \A i, j \in DOMAIN mapKeys : i < j => StrLess(mapKeys[i], mapKeys[j])
  /\ mapCall = "Keys" => EachKeyOnce(mapKeys, mapBefore)
  /\ mapCall # "none" => mapM = mapBefore

C11_Witness ==
  /\ mapCall = "SortedKeys"
  /\ mapKeys = << <<"a", "-">>, <<"a", "/", "a">>, <<"p">> >>
  /\ DOMAIN mapM = {<<"p">>, <<"a", "/", "a">>, <<"a", "-">>}

\* What the add prompt makes of an answer ("error": promptChoice failed).
AddPromptResult(choice) ==
  CASE choice = "yes" -> Nil
    [] choice = "all" -> Nil
    [] choice = "no" -> SkipDir
    [] choice = "quit" -> ExitCodeError(0)
    [] choice = "error" -> PromptError

\* C12: under severity warning defaultPreAddFunc never returns the
\* secret-policy abort, whatever the file and the findings: every finding
\* is reported, and the result is what it is with no findings, Proceed
\* without a prompt when prompting is disabled and otherwise what the
\* user's answer to the prompt gives.
C12_WarnNeverAborts ==
  PreAddCalled /\ Secrets = "severityWarning" =>
    /\ preAddCall.err # ExitCodeError(1)
    /\ preAddCall.reported = preAddCall.found
    /\ preAddCall.detected =>
         IF preAddCall.promptBefore
           THEN /\ preAddCall.prompted
                /\ preAddCall.err = AddPromptResult(preAddCall.choice)
           ELSE /\ ~preAddCall.prompted
                /\ preAddCall.err = Nil

C12_Witness ==
  /\ PreAddCalled
  /\ Secrets = "severityWarning"
  /\ ~preAddCall.forceBefore
  /\ preAddCall.found = 2
  /\ preAddCall.reported = 2
  /\ preAddCall.promptBefore
  /\ preAddCall.choice = "yes"
  /\ preAddCall.err = Nil

\* The candidate of the latest defaultPreAddFunc invocation is one whose
\* content is to be scanned: scanning is enabled, the candidate is a plain
\* regular file and Encrypt is off.
ToBeScanned ==
  /\ Secrets \in {"severityWarning", "severityError"}
  /\ preAddCall.fileInfo.type = "regular"
  /\ preAddCall.fileInfo.type \notin {"dir", "symlink"}
  /\ ~Encrypt

\* C13: defaultPreAddFunc reads the content of the candidate exactly when
\* scanning is enabled, the candidate is a plain regular file and Encrypt is
\* off, and then scans it unless the read or the detector fails; for a
\* directory, a symlink, an encrypted add or severity ignore it reads
\* nothing, scans nothing and never returns the secret-policy abort.
C13_ScansExactlyPlainFiles ==
  PreAddCalled =>
    /\ preAddCall.read <=> ToBeScanned
    /\ preAddCall.detected => preAddCall.read
    /\ ToBeScanned /\ preAddCall.err \notin {ReadFileError, DetectorError} =>
         preAddCall.detected
    /\ ~ToBeScanned =>
         /\ ~preAddCall.detected
         /\ preAddCall.found = 0 /\ preAddCall.reported = 0
         /\ preAddCall.err # ExitCodeError(1)

C13_Witness ==
  /\ PreAddCalled
  /\ Secrets = "severityError"
  /\ Encrypt
  /\ ~preAddCall.forceBefore
  /\ preAddCall.fileInfo.type = "regular"
  /\ ~preAddCall.read
  /\ preAddCall.err = Nil

\* How often target path p comes up in the sequence paths.
Count(paths, p) == Cardinality({i \in DOMAIN paths : paths[i] = p})

\* The observation of step e is one the run leaves out: its path is
\* protected, or the filter leaves its entry type out.
LeftOut(e) ==
  \/ ProtectedTarget(e.path)
  \/ ~IncludeEntryType(filter, destAbsPathInfos[e.path].type)

\* After step i the run went on to the next observation without an error.
WentOn(i) ==
  /\ i = Len(events) =>
       /\ retErr = Nil
       /\ idx = events[i].idx + 1
       /\ IF events[i].idx < Len(order) THEN pc = "adding" ELSE pc = "returned"
  /\ i < Len(events) => events[i + 1].idx = events[i].idx + 1

\* C14, as claimed: every observation the run leaves out (filtered out by
\* entry type, or at a protected path) is handed to the ignore callback once
\* and logged exactly once, and the run goes on to the next observation.
C14_EveryIgnoreLoggedOnce ==
  \A i \in DOMAIN events :
    LeftOut(events[i]) =>
      /\ events[i].kind = "ignored"
      /\ Count(ignored, events[i].path) = 1
      /\ Count(warnings, events[i].path) = 1
      /\ WentOn(i)

\* C14, amended: every observation the run leaves out is handed to the
\* ignore callback once, and the run goes on to the next observation; the
\* callback logs it exactly once when quiet is off and not at all when
\* quiet is on; nothing else is handed to the callback or logged by it.
C14_EveryIgnoreLoggedOnceUnlessQuiet ==
  /\ \A i \in DOMAIN events :
       /\ LeftOut(events[i]) =>
            /\ events[i].kind = "ignored"
            /\ Count(ignored, events[i].path) = 1
            /\ Count(warnings, events[i].path) = IF quiet THEN 0 ELSE 1
            /\ WentOn(i)
       /\ ~LeftOut(events[i]) =>
            /\ events[i].kind # "ignored"
            /\ Count(ignored, events[i].path) = 0
            /\ Count(warnings, events[i].path) = 0
  /\ Len(ignored) = Cardinality({i \in DOMAIN events : LeftOut(events[i])})
  /\ Len(warnings) = IF quiet THEN 0 ELSE Len(ignored)

C14_Witness ==
  /\ ~quiet
  /\ pc = "returned"
  /\ Len(events) = 3
  /\ events[1].path = <<"a", "-">> /\ events[1].kind = "ignored"
  /\ events[2].path = <<"p">> /\ events[2].kind = "ignored"
  /\ events[3].path = <<"p", "a">> /\ events[3].kind = "written"
  /\ ignored = << <<"a", "-">>, <<"p">> >>
  /\ warnings = << <<"a", "-">>, <<"p">> >>

\* The secret check of the latest defaultPreAddFunc invocation failed: the
\* content could not be read or the detector not be had.
ScanFailed == PreAddCalled /\ preAddCall.read /\ ~preAddCall.detected

\* C15: in one defaultPreAddFunc invocation the secret check comes before the
\* prompt: a file whose secret check gives Abort, or whose content cannot be
\* read, or for which the detector cannot be had, is not offered to the user
\* in a prompt, and the hook returns that failure as it is, which is what the
\* run then returns; a file that is offered has passed the secret check.
C15_SecretCheckBeforePrompt ==
  /\ SecretViolation =>
       /\ ~preAddCall.prompted /\ preAddCall.choice = "none"
       /\ preAddCall.err = ExitCodeError(1)
       /\ pc = "returned" /\ retErr = preAddCall.err
  /\ ScanFailed =>
       /\ ~preAddCall.prompted /\ preAddCall.choice = "none"
       /\ preAddCall.err \in {ReadFileError, DetectorError}
       /\ pc = "returned" /\ retErr = preAddCall.err
  /\ PreAddCalled /\ preAddCall.prompted => SecretCheckPassed

C15_Witness ==
  /\ ScanFailed
  /\ preAddCall.promptBefore
  /\ preAddCall.err = DetectorError
  /\ retErr = DetectorError
  /\ preAddCall.n = 2

\* C16: with the force override set, defaultReplaceFunc returns Proceed
\* without a prompt for every pair of entries, those whose new entry drops
\* Encrypted, Private or Template included, and leaves c.force and
\* c.Add.prompt as they were.
C16_ForceNeverAsks ==
  ReplaceCalled /\ replaceCall.forceBefore =>
    /\ ~replaceCall.prompted /\ replaceCall.choice = "none"
    /\ replaceCall.err = Nil /\ Outcome(replaceCall.err) = "Proceed"
    /\ force = replaceCall.forceBefore
    /\ prompt = replaceCall.promptBefore
    /\ pc = "adding"

C16_Witness ==
  /\ ReplaceCalled
  /\ replaceCall.n = 1
  /\ replaceCall.forceBefore
  /\ replaceCall.promptBefore
  /\ BothFiles(replaceCall.newEntry, replaceCall.oldEntry)
  /\ replaceCall.oldEntry.Attr = [a \in AttrNames |-> TRUE]
  /\ replaceCall.newEntry.Attr = NoAttr

\* The latest defaultPreAddFunc invocation had a regular file scanned with
\* Encrypt off under severity error, and the detector returned findings.
FindingsUnderError ==
  /\ PreAddCalled
  /\ Secrets = "severityError"
  /\ ~Encrypt
  /\ preAddCall.fileInfo.type = "regular"
  /\ preAddCall.found >= 1

\* C17, as claimed: the answer all to a replace prompt changes only whether
\* later replace prompts are shown: in a run that the user did not start
\* with the force override, a regular unencrypted file with findings under
\* severity error is aborted by defaultPreAddFunc, whether or not a replace
\* prompt of the run was answered all before.
C17_ReplaceAllLeavesSecretAbort ==
  /\ ReplaceCalled /\ replaceCall.choice = "all" =>
       prompt = replaceCall.promptBefore
  /\ FindingsUnderError /\ ~forceAtStart =>
       /\ preAddCall.err = ExitCodeError(1)
       /\ ~preAddCall.prompted
       /\ pc = "returned" /\ retErr = ExitCodeError(1)

\* A run started without the force override in which, after the answer all
\* to a replace prompt, a file with findings under severity error goes
\* through.
C17_Witness ==
  /\ FindingsUnderError
  /\ ~forceAtStart
  /\ replaceAllAt > 0
  /\ preAddCall.n > replaceAllAt
  /\ preAddCall.forceBefore
  /\ preAddCall.err = Nil
  /\ pc = "adding"

\* C18: the answer all to an add prompt disables add prompting and nothing
\* else: defaultPreAddFunc leaves c.force as it was, so that a later
\* defaultReplaceFunc invocation of the run whose new entry drops Encrypted,
\* Private or Template asks as it would have (no force override, both
\* entries file entries); and no invocation of either hook enables add
\* prompting again or clears the force override.
C18_AddAllDisablesOnlyAddPrompts ==
  /\ PreAddCalled =>
       /\ force = preAddCall.forceBefore
       /\ preAddCall.choice = "all" => ~prompt
       /\ preAddCall.choice # "all" => prompt = preAddCall.promptBefore
  /\ ReplaceCalled =>
       /\ prompt = replaceCall.promptBefore
       /\ replaceCall.forceBefore => force
       /\ /\ addAllAt > 0
          /\ ~replaceCall.forceBefore
          /\ BothFiles(replaceCall.newEntry, replaceCall.oldEntry)
          /\ DropsAttribute(replaceCall.newEntry, replaceCall.oldEntry)
          => replaceCall.prompted
  /\ prompt => promptAtStart
  /\ forceAtStart => force

C18_Witness ==
  /\ ReplaceCalled
  /\ addAllAt > 0
  /\ replaceCall.n > addAllAt
  /\ ~prompt
  /\ replaceCall.prompted
  /\ replaceCall.choice = "yes"
  /\ DropsAttribute(replaceCall.newEntry, replaceCall.oldEntry)

\* C19, as claimed: what an answer all suppresses is confined to the run in
\* which it was given: in a later run on the same configuration, until an
\* answer all is given in that run, the flags are as the configuration gave
\* them, a file that passes the secret check is offered in an add prompt
\* if the configuration has prompting on, and a replacement that drops an
\* attribute is asked about if the configuration has no force override.
C19_AllConfinedToItsRun ==
  run >= 2 =>
    /\ addAllAt = 0 => prompt = promptAtStart
    /\ replaceAllAt = 0 => force = forceAtStart
    /\ /\ SecretCheckPassed
       /\ promptAtStart
       /\ addAllAt \in {0, preAddCall.n}
       => preAddCall.prompted
    /\ /\ ReplaceCalled
       /\ ~forceAtStart
       /\ replaceAllAt \in {0, replaceCall.n}
       /\ BothFiles(replaceCall.newEntry, replaceCall.oldEntry)
       /\ DropsAttribute(replaceCall.newEntry, replaceCall.oldEntry)
       => replaceCall.prompted

\* The second run on a configuration with prompting on, in which a file
\* that passes the secret check is not offered in an add prompt, no answer
\* all having been given in that run.
C19_Witness ==
  /\ run = 2
  /\ promptAtStart
  /\ SecretCheckPassed
  /\ preAddCall.n = 1
  /\ addAllAt = 0
  /\ ~preAddCall.promptBefore
  /\ ~preAddCall.prompted
  /\ preAddCall.err = Nil

====
